---- MODULE Spec2Model ----
(***************************************************************************)
(* Model of the Pixelflut command decoder SimpleParser                     *)
(* (breakwater-parser/src/implementations/simple.rs).                      *)
(*                                                                         *)
(* Conventions                                                             *)
(*  - a byte is an integer 0..255; a buffer is a sequence of bytes.  The   *)
(*    code indexes from 0, TLA+ sequences from 1: ByteAt(buf, k) is the    *)
(*    code's buffer[k].                                                    *)
(*  - a u64 / usize / u32 is the tuple of its bytes in little-endian order *)
(*    (element 1 is the least significant byte), which is what             *)
(*    read_unaligned yields on the little-endian targets the code's        *)
(*    string_to_number assumes.                                            *)
(***************************************************************************)
EXTENDS Integers, Sequences, FiniteSets, TLC

(***************************************************************************)
(* Bytes the code names as literals.                                       *)
(***************************************************************************)
NL == 10
SP == 32
CH_0 == 48
CH_9 == 57

PARSER_LOOKAHEAD == 22

FRAMEBUFFER_WIDTH == 1920
FRAMEBUFFER_HEIGHT == 1080

(***************************************************************************)
(* Bit operations on non-negative integers.                                *)
(***************************************************************************)
RECURSIVE BitOr(_, _)
BitOr(a, b) ==
    IF a <= 0 THEN b
    ELSE IF b <= 0 THEN a
    ELSE (IF a % 2 = 1 \/ b % 2 = 1 THEN 1 ELSE 0) + 2 * BitOr(a \div 2, b \div 2)

RECURSIVE BitAnd(_, _)
BitAnd(a, b) ==
    IF a <= 0 \/ b <= 0 THEN 0
    ELSE IF b = 255 /\ a <= 255 THEN a
    ELSE (IF a % 2 = 1 /\ b % 2 = 1 THEN 1 ELSE 0) + 2 * BitAnd(a \div 2, b \div 2)

RECURSIVE Pow2(_)
Pow2(n) == IF n = 0 THEN 1 ELSE 2 * Pow2(n - 1)

\* Bytewise AND / OR of two little-endian words of the same width.
WordAnd(v, w) == [k \in DOMAIN v |-> BitAnd(v[k], w[k])]
WordOr(v, w) == [k \in DOMAIN v |-> BitOr(v[k], w[k])]

(***************************************************************************)
(* Reading the buffer.  Every read the decoder makes goes through ByteAt;  *)
(* OOB marks an index at or beyond the end of the buffer.                  *)
(***************************************************************************)
OOB == -1

ByteAt(buf, k) == IF k >= 0 /\ k < Len(buf) THEN buf[k + 1] ELSE OOB

\* n bytes starting at index k: (buffer.as_ptr().add(k) as *const _).read_unaligned()
Window(buf, k, n) == [j \in 1..n |-> ByteAt(buf, k + j - 1)]

(***************************************************************************)
(* string_to_number: the little-endian u64 of an 8-byte literal.           *)
(***************************************************************************)
string_to_number(input) ==
    <<input[1], input[2], input[3], input[4], input[5], input[6], input[7], input[8]>>

KW_PX == <<80, 88, 32, 0, 0, 0, 0, 0>>
KW_OFFSET == <<79, 70, 70, 83, 69, 84, 32, 0>>
KW_SIZE == <<83, 73, 90, 69, 0, 0, 0, 0>>
KW_HELP == <<72, 69, 76, 80, 0, 0, 0, 0>>

MASK_PX == <<255, 255, 255, 0, 0, 0, 0, 0>>
MASK_OFFSET == <<255, 255, 255, 255, 255, 255, 0, 0>>
MASK_4 == <<255, 255, 255, 255, 0, 0, 0, 0>>

(***************************************************************************)
(* simd_unhex: 8 characters to a u32.                                      *)
(***************************************************************************)
SHIFT_PATTERN == <<4, 0, 12, 8, 20, 16, 28, 24>>

\* One u32 lane shifted left by s bits, bits beyond 32 dropped.
Shl32(v, s) ==
    LET t == v * Pow2(s % 8)
        at == s \div 8
    IN  [k \in 1..4 |->
            IF k = at + 1 THEN t % 256
            ELSE IF k = at + 2 THEN (t \div 256) % 256
            ELSE 0]

Hexed_ten(c) == BitAnd(c, 15) + (c \div 64) * 10

\* hexed lane: (c & 0xf) + (c >> 6) * 9
Hexed(c) == BitAnd(c, 15) + (c \div 64) * 9

RECURSIVE ReduceOr(_, _)
ReduceOr(lanes, n) ==
    IF n = 0 THEN <<0, 0, 0, 0>> ELSE WordOr(ReduceOr(lanes, n - 1), lanes[n])

simd_unhex(value) ==
    LET shifted == [k \in 1..8 |-> Shl32(Hexed(value[k]), SHIFT_PATTERN[k])]
    IN  ReduceOr(shifted, 8)

(***************************************************************************)
(* parse_coordinate / parse_pixel_coordinates.                             *)
(***************************************************************************)
RECURSIVE CoordLoop_five(_, _, _, _, _)
CoordLoop_five(digits, pos, result, index, visited) ==
    IF pos >= 5 THEN [value |-> result, visited |-> visited, index |-> index, start |-> -1]
    ELSE LET digit == digits[pos + 1]
         IN  IF digit >= CH_0 /\ digit <= CH_9
             THEN CoordLoop_five(digits, pos + 1, 10 * result + digit - CH_0, index + 1, TRUE)
             ELSE [value |-> result, visited |-> visited, index |-> index, start |-> -1]

RECURSIVE CoordLoop(_, _, _, _, _)
CoordLoop(digits, pos, result, index, visited) ==
    IF pos >= 4 THEN [value |-> result, visited |-> visited, index |-> index, start |-> -1]
    ELSE LET digit == digits[pos + 1]
         IN  IF digit >= CH_0 /\ digit <= CH_9
             THEN CoordLoop(digits, pos + 1, 10 * result + digit - CH_0, index + 1, TRUE)
             ELSE [value |-> result, visited |-> visited, index |-> index, start |-> -1]

parse_coordinate(buf, current_index) ==
    CoordLoop(Window(buf, current_index, 8), 0, 0, current_index, FALSE)

parse_pixel_coordinates(buf, current_index) ==
    LET cx == parse_coordinate(buf, current_index)
        cy == parse_coordinate(buf, cx.index + 1)
    IN  [x |-> cx.value, y |-> cy.value,
         present |-> cx.visited /\ cy.visited, index |-> cy.index]

(***************************************************************************)
(* Reply formatting: format!("{}") and format!("{:06x}").                  *)
(***************************************************************************)
RECURSIVE Dec(_)
Dec(n) == IF n < 10 THEN <<CH_0 + n>> ELSE Dec(n \div 10) \o <<CH_0 + (n % 10)>>

HexChar(d) == IF d < 10 THEN CH_0 + d ELSE 87 + d

RECURSIVE HexDigits(_)
HexDigits(n) == IF n < 16 THEN <<HexChar(n)>> ELSE HexDigits(n \div 16) \o <<HexChar(n % 16)>>

RECURSIVE PadLeft(_, _)
PadLeft(s, w) == IF Len(s) >= w THEN s ELSE PadLeft(<<CH_0>> \o s, w)

Hex06(n) == PadLeft(HexDigits(n), 6)

ToBeShr8_noswap(w) == (w[2] + 256 * w[3] + 65536 * w[4])

\* rgb.to_be() >> 8 on a little-endian target, as an integer
ToBeShr8(w) == LET be == <<w[4], w[3], w[2], w[1]>> IN be[2] + 256 * be[3] + 65536 * be[4]

PxReply(x, y, rgb) ==
    <<80, 88, 32>> \o Dec(x) \o <<SP>> \o Dec(y) \o <<SP>> \o Hex06(ToBeShr8(rgb)) \o <<NL>>

SizeReply(w, h) == <<83, 73, 90, 69, 32>> \o Dec(w) \o <<SP>> \o Dec(h) \o <<NL>>

HELP_TEXT == <<72, 69, 76, 80, 58, 32, 80, 88, 32, 120, 32, 121, 32, 114, 114, 103, 103, 98, 98, NL>>

(***************************************************************************)
(* The canvas (breakwater_core::framebuffer::FrameBuffer): a sparse map    *)
(* from written cells to u32 colours; unwritten cells hold 0.              *)
(***************************************************************************)
ZeroWord == <<0, 0, 0, 0>>

get_width == FRAMEBUFFER_WIDTH
get_height == FRAMEBUFFER_HEIGHT

FbInCanvas(x, y) == x < get_width /\ y < get_height

FbGetUnchecked(f, x, y) == IF <<x, y>> \in DOMAIN f THEN f[<<x, y>>] ELSE ZeroWord

\* fb.get(x, y) -> Option<u32>
FbGet(f, x, y) ==
    IF FbInCanvas(x, y)
    THEN [some |-> TRUE, rgb |-> FbGetUnchecked(f, x, y)]
    ELSE [some |-> FALSE, rgb |-> ZeroWord]

\* fb.set(x, y, rgba): no-op outside the canvas
FbSet(f, x, y, rgba) ==
    IF FbInCanvas(x, y)
    THEN [c \in DOMAIN f \cup {<<x, y>>} |-> IF c = <<x, y>> THEN rgba ELSE f[c]]
    ELSE f

EmptyFb == [c \in {} |-> ZeroWord]

(***************************************************************************)
(* Inputs: a connection's byte stream is the encoding of a list of         *)
(* commands followed by a tail.  Coordinates are digit strings (sequences  *)
(* of digit values), colours are sequences of characters.                  *)
(***************************************************************************)
Digs(ds) == [k \in DOMAIN ds |-> CH_0 + ds[k]]

RECURSIVE DigVal(_)
DigVal(ds) == IF Len(ds) = 0 THEN 0 ELSE 10 * DigVal(SubSeq(ds, 1, Len(ds) - 1)) + ds[Len(ds)]

CmdSet(xs, ys, col) == [k |-> "set", xs |-> xs, ys |-> ys, col |-> col, bytes |-> <<>>]
CmdGet(xs, ys) == [k |-> "get", xs |-> xs, ys |-> ys, col |-> <<>>, bytes |-> <<>>]
CmdOffset(xs, ys) == [k |-> "offset", xs |-> xs, ys |-> ys, col |-> <<>>, bytes |-> <<>>]
CmdSize == [k |-> "size", xs |-> <<>>, ys |-> <<>>, col |-> <<>>, bytes |-> <<>>]
CmdHelp == [k |-> "help", xs |-> <<>>, ys |-> <<>>, col |-> <<>>, bytes |-> <<>>]
CmdRaw(bytes) == [k |-> "raw", xs |-> <<>>, ys |-> <<>>, col |-> <<>>, bytes |-> bytes]

EncodeCmd(c) ==
    CASE c.k = "set" -> <<80, 88, SP>> \o Digs(c.xs) \o <<SP>> \o Digs(c.ys) \o <<SP>> \o c.col \o <<NL>>
      [] c.k = "get" -> <<80, 88, SP>> \o Digs(c.xs) \o <<SP>> \o Digs(c.ys) \o <<NL>>
      [] c.k = "offset" -> <<79, 70, 70, 83, 69, 84, SP>> \o Digs(c.xs) \o <<SP>> \o Digs(c.ys) \o <<NL>>
      [] c.k = "size" -> <<83, 73, 90, 69, NL>>
      [] c.k = "help" -> <<72, 69, 76, 80, NL>>
      [] OTHER -> c.bytes

RECURSIVE EncodeAll(_)
EncodeAll(cs) == IF Len(cs) = 0 THEN <<>> ELSE EncodeCmd(Head(cs)) \o EncodeAll(Tail(cs))

\* index in the stream of the first byte of command number n (1-based)
StartOf(cs, n) == Len(EncodeAll(SubSeq(cs, 1, n - 1)))

EncodeInput(inp) == EncodeAll(inp.cmds) \o inp.tail

(***************************************************************************)
(* State.                                                                  *)
(***************************************************************************)
VARIABLES
    input,                  \* the commands and tail the client sends on this connection
    wire,                   \* their encoding: the bytes the client sends
    received,               \* how many bytes of wire the transport has read so far
    consumed,               \* how many bytes of wire the transport has dropped as parsed
    phase,                  \* "whole": wire arrives in one read; "fragmented": in two
    calls,                  \* parse calls made on this connection
    pc,                     \* "idle" | "loop" | "returned"
    buffer,                 \* parse's argument: retained bytes followed by the new chunk
    i,                      \* parse: the cursor
    last_byte_parsed,       \* parse: the marker
    loop_end,               \* parse: buffer.len().saturating_sub(PARSER_LOOKAHEAD)
    iters,                  \* parse: iterations of the while loop made in this call
    connection_x_offset,    \* SimpleParser field
    connection_y_offset,    \* SimpleParser field
    alpha,                  \* whether the build enables feature "alpha"
    fb,                     \* the canvas
    stream,                 \* the reply sink: every write_all made, with its outcome
    sets,                   \* every fb.set call made, in order
    applied,                \* every command completed: where in wire it began, and its kind
    result,                 \* what the last parse call returned
    write_failed,           \* a write_all failed during the current parse call
    ref,                    \* outcome of the unfragmented run of the same wire
    ret                     \* return value of a directly applied pure function

vars == <<input, wire, received, consumed, phase, calls, pc, buffer, i, last_byte_parsed,
          loop_end, connection_x_offset, connection_y_offset, alpha, fb, stream, sets,
          applied, result, write_failed, ref, ret, iters>>

inputVars == <<input, wire, alpha, ref, ret>>
transportVars == <<received, consumed, phase, calls>>

NoResult == [ok |-> TRUE, val |-> -1]
Ok(n) == [ok |-> TRUE, val |-> n]
Err == [ok |-> FALSE, val |-> -1]
NoRef == [sets |-> <<>>, stream |-> <<>>, x |-> -1, y |-> -1, val |-> -1]
NoRet == [value |-> -1, visited |-> FALSE, index |-> -1, start |-> -1]

(***************************************************************************)
(* Decoding at the cursor (lines 42-181).                                  *)
(***************************************************************************)
current_command == Window(buffer, i, 8)

IsPx == WordAnd(current_command, MASK_PX) = string_to_number(KW_PX)
IsOffset == ~IsPx /\ WordAnd(current_command, MASK_OFFSET) = string_to_number(KW_OFFSET)
IsSize == ~IsPx /\ ~IsOffset /\ WordAnd(current_command, MASK_4) = string_to_number(KW_SIZE)
IsHelp == ~IsPx /\ ~IsOffset /\ ~IsSize
          /\ WordAnd(current_command, MASK_4) = string_to_number(KW_HELP)

\* PX: coordinates after the 3-byte prefix, then the connection offset applied
PxC == parse_pixel_coordinates(buffer, i + 3)
PxX == PxC.x + connection_x_offset
PxY == PxC.y + connection_y_offset
\* line 54: separator between coordinates and colour; PxJ is the cursor after it
PxSep == PxC.present /\ ByteAt(buffer, PxC.index) = SP
PxJ == IF PxSep THEN PxC.index + 1 ELSE PxC.index

PxIsRgb == IsPx /\ PxSep /\ ByteAt(buffer, PxJ + 6) = NL
PxIsRgba == IsPx /\ PxSep /\ ~PxIsRgb /\ ByteAt(buffer, PxJ + 8) = NL
PxIsGray == IsPx /\ PxSep /\ ~PxIsRgb /\ ~PxIsRgba /\ ByteAt(buffer, PxJ + 2) = NL
PxIsSet == PxIsRgb \/ PxIsRgba \/ PxIsGray
PxIsGet == IsPx /\ PxC.present /\ ~PxIsSet /\ ByteAt(buffer, PxJ) = NL
PxIsNone == IsPx /\ ~PxIsSet /\ ~PxIsGet

\* OFFSET: coordinates after the 7-byte prefix
OfC == parse_pixel_coordinates(buffer, i + 7)
OffsetIsSet == IsOffset /\ OfC.present /\ ByteAt(buffer, OfC.index) = NL

InLoop == pc = "loop" /\ i < loop_end

\* Every buffer index the iteration at the cursor reads, in the order of the
\* code: the keyword window (line 43); for PX the two coordinate windows
\* (line 239, a usize of 8 bytes), the separator probe (line 54), the newline
\* probes (lines 61, 73/83, 110), the hex window of the path taken (lines 65,
\* 77/87, 114) and the query probe (line 125); for OFFSET the two coordinate
\* windows and the newline probe (line 155).
Span(k, n) == k..(k + n - 1)

Reads ==
    Span(i, 8)
    \cup (IF IsPx
          THEN Span(i + 3, 8)
               \cup Span(parse_coordinate(buffer, i + 3).index + 1, 8)
               \cup (IF PxC.present THEN {PxC.index} ELSE {})
               \cup (IF PxSep THEN {PxJ + 6} ELSE {})
               \cup (IF PxSep /\ ~PxIsRgb THEN {PxJ + 8} ELSE {})
               \cup (IF PxSep /\ ~PxIsRgb /\ ~PxIsRgba THEN {PxJ + 2} ELSE {})
               \cup (IF PxIsSet THEN Span(PxJ, 8) ELSE {})
               \cup (IF PxC.present /\ ~PxIsSet THEN {PxJ} ELSE {})
          ELSE IF IsOffset
          THEN Span(i + 7, 8)
               \cup Span(parse_coordinate(buffer, i + 7).index + 1, 8)
               \cup (IF OfC.present THEN {OfC.index} ELSE {})
          ELSE {})

\* the colour the RGB path hands to fb.set: simd_unhex(&buffer[i - 7..i + 1]) & 0x00ff_ffff
RgbColor == WordAnd(simd_unhex(Window(buffer, PxJ, 8)), <<255, 255, 255, 0>>)
\* simd_unhex(&buffer[i - 9..i - 1])
RgbaWord == simd_unhex(Window(buffer, PxJ, 8))
\* simd_unhex(&buffer[i - 3..i + 5]) & 0xff, replicated into three channels
GrayColor ==
    LET base == WordAnd(simd_unhex(Window(buffer, PxJ, 8)), <<255, 0, 0, 0>>)
    IN  <<base[1], base[1], base[1], 0>>

\* lines 89-105: the alpha build's blend of rgba over the cell's current colour
Blend(current, rgba) ==
    LET a == rgba[4]
        alpha_comp == 255 - a
        r == (current[4] * alpha_comp + rgba[3] * a) \div 255
        g == (current[3] * alpha_comp + rgba[2] * a) \div 255
        b == (current[2] * alpha_comp + rgba[1] * a) \div 255
    IN  <<b, g, r, 0>>

\* replies
PxGetReply == PxReply(PxX - connection_x_offset, PxY - connection_y_offset,
                      FbGet(fb, PxX, PxY).rgb)
SizeWrite_swapped == SizeReply(get_height, get_width)

SizeWrite == SizeReply(get_width, get_height)

DoSet(x, y, rgba) ==
    /\ fb' = FbSet(fb, x, y, rgba)
    /\ sets' = Append(sets, [x |-> x, y |-> y, rgba |-> rgba])

\* bookkeeping: the command that began at the cursor completed
Applied(kind) == applied' = Append(applied, [at |-> consumed + i, kind |-> kind])

DoWrite(data, ok) ==
    /\ stream' = Append(stream, [data |-> data, ok |-> ok])
    /\ write_failed' = (write_failed \/ ~ok)

(***************************************************************************)
(* parse: entry (lines 37-39).  The transport appends the bytes it read to *)
(* the bytes it retained and calls parse on the whole.                     *)
(***************************************************************************)
LoopEnd_nolookahead(len) == len

LoopEnd_short(len) == IF len > PARSER_LOOKAHEAD - 2 THEN len - (PARSER_LOOKAHEAD - 2) ELSE 0

\* line 39: buffer.len().saturating_sub(PARSER_LOOKAHEAD)
LoopEnd(len) == IF len > PARSER_LOOKAHEAD THEN len - PARSER_LOOKAHEAD ELSE 0

Enter(n) ==
    /\ buffer' = buffer \o SubSeq(wire, received + 1, received + n)
    /\ received' = received + n
    /\ calls' = calls + 1
    /\ last_byte_parsed' = 0
    /\ i' = 0
    /\ loop_end' = LoopEnd(Len(buffer'))
    /\ write_failed' = FALSE
    /\ iters' = 0
    /\ pc' = "loop"
    /\ UNCHANGED <<inputVars, consumed, phase, connection_x_offset, connection_y_offset,
                   fb, stream, sets, applied, result>>

\* the whole stream arrives in one read
ParseWhole ==
    /\ pc = "idle" /\ phase \in {"whole", "resync"} /\ calls = 0
    /\ Enter(Len(wire))

\* the stream arrives in two reads, split anywhere
ParseFirstFragment ==
    /\ pc = "idle" /\ phase = "fragmented" /\ calls = 0
    /\ \E n \in 1..(Len(wire) - 1) : Enter(n)

ParseSecondFragment ==
    /\ pc = "idle" /\ phase = "fragmented" /\ calls = 1
    /\ Enter(Len(wire) - received)

(***************************************************************************)
(* parse: one iteration of the while loop, by the branch it takes.         *)
(***************************************************************************)
\* the offset is added the wrong way round: self.connection_x_offset += x
PxSetRgb_accumulate ==
    /\ InLoop /\ PxIsRgb
    /\ iters' = iters + 1
    /\ Applied("px_rgb")
    /\ last_byte_parsed' = PxJ + 6
    /\ i' = PxJ + 7
    /\ connection_x_offset' = PxX
    /\ connection_y_offset' = PxY
    /\ DoSet(PxX, PxY, RgbColor)
    /\ UNCHANGED <<inputVars, transportVars, pc, buffer, loop_end, stream, result,
                   write_failed>>

\* lines 61-69
PxSetRgb ==
    /\ InLoop /\ PxIsRgb
    /\ iters' = iters + 1
    /\ Applied("px_rgb")
    /\ last_byte_parsed' = PxJ + 6
    /\ i' = PxJ + 7
    /\ DoSet(PxX, PxY, RgbColor)
    /\ UNCHANGED <<inputVars, transportVars, pc, buffer, loop_end, connection_x_offset,
                   connection_y_offset, stream, result, write_failed>>

\* lines 72-107
PxSetRgba ==
    /\ InLoop /\ PxIsRgba
    /\ iters' = iters + 1
    /\ Applied("px_rgba")
    /\ last_byte_parsed' = PxJ + 8
    /\ i' = PxJ + 9
    /\ IF ~alpha
       THEN DoSet(PxX, PxY, WordAnd(RgbaWord, <<255, 255, 255, 0>>))
       ELSE IF RgbaWord[4] = 0 \/ PxX >= get_width \/ PxY >= get_height
            THEN UNCHANGED <<fb, sets>>
            ELSE DoSet(PxX, PxY, Blend(FbGetUnchecked(fb, PxX, PxY), RgbaWord))
    /\ UNCHANGED <<inputVars, transportVars, pc, buffer, loop_end, connection_x_offset,
                   connection_y_offset, stream, result, write_failed>>

\* lines 110-121
PxSetGray ==
    /\ InLoop /\ PxIsGray
    /\ iters' = iters + 1
    /\ Applied("px_gray")
    /\ last_byte_parsed' = PxJ + 2
    /\ i' = PxJ + 3
    /\ DoSet(PxX, PxY, GrayColor)
    /\ UNCHANGED <<inputVars, transportVars, pc, buffer, loop_end, connection_x_offset,
                   connection_y_offset, stream, result, write_failed>>

\* lines 125-147: a failed write is dropped (Err(_) => continue)
PxGet ==
    /\ InLoop /\ PxIsGet
    /\ iters' = iters + 1
    /\ Applied("px_get")
    /\ last_byte_parsed' = PxJ
    /\ i' = PxJ + 1
    /\ IF FbGet(fb, PxX, PxY).some
       THEN \E ok \in BOOLEAN : DoWrite(PxGetReply, ok)
       ELSE UNCHANGED <<stream, write_failed>>
    /\ UNCHANGED <<inputVars, transportVars, pc, buffer, loop_end, connection_x_offset,
                   connection_y_offset, fb, sets, result>>

\* the failed attempt restores the cursor and retries from it
PxNoMatch_retry ==
    /\ InLoop /\ PxIsNone
    /\ iters' = iters + 1
    /\ i' = i
    /\ UNCHANGED <<inputVars, transportVars, pc, buffer, last_byte_parsed, loop_end,
                   connection_x_offset, connection_y_offset, fb, stream, sets, result,
                   write_failed, applied>>

\* PX prefix matched, nothing completed: the cursor stays where the attempt
\* left it and line 181 adds one
PxNoMatch ==
    /\ InLoop /\ PxIsNone
    /\ iters' = iters + 1
    /\ i' = PxJ + 1
    /\ UNCHANGED <<inputVars, transportVars, pc, buffer, last_byte_parsed, loop_end,
                   connection_x_offset, connection_y_offset, fb, stream, sets, result,
                   write_failed, applied>>

\* a reply written with `?`: on failure parse returns the error at once
WriteOrReturn(data) ==
    \E ok \in BOOLEAN :
        /\ DoWrite(data, ok)
        /\ IF ok THEN UNCHANGED <<pc, result>>
                 ELSE pc' = "returned" /\ result' = Err

\* lines 161-169
Size ==
    /\ InLoop /\ IsSize
    /\ iters' = iters + 1
    /\ Applied("size")
    /\ i' = i + 4
    /\ last_byte_parsed' = i + 4 - 1
    /\ WriteOrReturn(SizeWrite)
    /\ UNCHANGED <<inputVars, transportVars, buffer, loop_end, connection_x_offset,
                   connection_y_offset, fb, sets>>

\* lines 170-178
Help ==
    /\ InLoop /\ IsHelp
    /\ iters' = iters + 1
    /\ Applied("help")
    /\ i' = i + 4
    /\ last_byte_parsed' = i + 4 - 1
    /\ WriteOrReturn(HELP_TEXT)
    /\ UNCHANGED <<inputVars, transportVars, buffer, loop_end, connection_x_offset,
                   connection_y_offset, fb, sets>>

\* lines 149-160: OFFSET commits both fields; continue leaves the cursor on the newline
OffsetCommit ==
    /\ Applied("offset")
    /\ last_byte_parsed' = OfC.index
    /\ i' = OfC.index
    /\ connection_x_offset' = OfC.x
    /\ connection_y_offset' = OfC.y
    /\ UNCHANGED <<inputVars, transportVars, pc, buffer, loop_end, fb, stream, sets,
                   result, write_failed>>

\* the stray-byte arm reports the input as an error
OffsetOrSkip_reject ==
    /\ InLoop /\ ~IsPx /\ ~IsSize /\ ~IsHelp
    /\ iters' = iters + 1
    /\ pc' = "returned"
    /\ result' = Err
    /\ UNCHANGED <<inputVars, transportVars, buffer, i, last_byte_parsed, loop_end,
                   connection_x_offset, connection_y_offset, fb, stream, sets, applied,
                   write_failed>>

\* the stray-byte arm resumes two bytes on
OffsetOrSkip_two ==
    /\ InLoop /\ ~IsPx /\ ~IsSize /\ ~IsHelp
    /\ iters' = iters + 1
    /\ i' = i + 2
    /\ UNCHANGED <<inputVars, transportVars, pc, buffer, last_byte_parsed, loop_end,
                   connection_x_offset, connection_y_offset, fb, stream, sets, applied,
                   result, write_failed>>

\* The iteration in which the PX test fails and neither SIZE nor HELP matches:
\* the OFFSET arm (lines 149-160) if its test passes, then line 181.  The
\* mask 0x0000_ffff_ffff_ffff keeps six bytes while the keyword "OFFSET " has
\* seven, so IsOffset compares the masked word with a constant whose seventh
\* byte is a space.
OffsetOrSkip ==
    /\ InLoop /\ ~IsPx /\ ~IsSize /\ ~IsHelp
    /\ iters' = iters + 1
    /\ IF OffsetIsSet
       THEN OffsetCommit
       ELSE /\ i' = (IF IsOffset THEN OfC.index ELSE i) + 1
            /\ UNCHANGED <<inputVars, transportVars, pc, buffer, last_byte_parsed, loop_end,
                           connection_x_offset, connection_y_offset, fb, stream, sets,
                           result, write_failed, applied>>

\* line 184
ReturnValue_cursor == i

ReturnValue == last_byte_parsed

Return ==
    /\ pc = "loop" /\ ~(i < loop_end)
    /\ pc' = "returned"
    /\ result' = Ok(ReturnValue)
    /\ UNCHANGED <<inputVars, transportVars, buffer, i, last_byte_parsed, loop_end, iters,
                   connection_x_offset, connection_y_offset, fb, stream, sets, applied,
                   write_failed>>

(***************************************************************************)
(* The transport between two reads: it drops the bytes up to and including *)
(* the returned offset and keeps the rest; a return of 0 means no command  *)
(* completed and everything is kept.                                       *)
(***************************************************************************)
Retained(buf, offset) == IF offset = 0 THEN buf ELSE SubSeq(buf, offset + 2, Len(buf))

Retain ==
    /\ pc = "returned" /\ result.ok /\ received < Len(wire)
    /\ buffer' = Retained(buffer, result.val)
    /\ consumed' = consumed + (Len(buffer) - Len(buffer'))
    /\ pc' = "idle"
    /\ UNCHANGED <<inputVars, received, phase, calls, i, last_byte_parsed, loop_end, iters,
                   connection_x_offset, connection_y_offset, fb, stream, sets, applied,
                   result, write_failed>>

AllOk(writes) == \A k \in DOMAIN writes : writes[k].ok

\* The same bytes are sent again, fragmented, on a new connection (a new
\* SimpleParser::default()) to a new canvas; the outcome of the unfragmented
\* run is kept for comparison.
FreshConnection ==
    /\ ref' = [sets |-> sets, stream |-> stream,
               x |-> connection_x_offset, y |-> connection_y_offset, val |-> result.val]
    /\ received' = 0 /\ consumed' = 0 /\ calls' = 0
    /\ pc' = "idle"
    /\ buffer' = <<>>
    /\ i' = 0 /\ last_byte_parsed' = 0 /\ loop_end' = 0 /\ iters' = 0
    /\ connection_x_offset' = 0 /\ connection_y_offset' = 0
    /\ fb' = EmptyFb
    /\ stream' = <<>> /\ sets' = <<>> /\ applied' = <<>>
    /\ result' = NoResult
    /\ write_failed' = FALSE
    /\ UNCHANGED <<input, alpha, ret>>

Reconnect ==
    /\ phase = "whole" /\ pc = "returned" /\ result.ok /\ AllOk(stream)
    /\ Len(wire) > 1
    /\ phase' = "fragmented"
    /\ wire' = wire
    /\ FreshConnection

\* The same bytes are sent again on a new connection to a new canvas, after
\* one more byte g.
ResendAfterGarbage ==
    /\ phase = "whole" /\ pc = "returned" /\ result.ok /\ AllOk(stream)
    /\ phase' = "resync"
    /\ \E g \in 0..255 : wire' = <<g>> \o wire
    /\ FreshConnection

(***************************************************************************)
(* The inputs explored.                                                    *)
(***************************************************************************)
MaxCmds == 2
MaxFragCmds == 2
CoordRun == 5

RECURSIVE SeqsUpTo(_, _)
SeqsUpTo(S, n) ==
    IF n = 0 THEN {<<>>}
    ELSE LET shorter == SeqsUpTo(S, n - 1)
         IN  shorter \cup {Append(q, e) : q \in {r \in shorter : Len(r) = n - 1}, e \in S}

Zeros(n) == [k \in 1..n |-> 0]

COL_ff0000 == <<102, 102, 48, 48, 48, 48>>
COL_12ab9f == <<49, 50, 97, 98, 57, 102>>
COL_00c0de == <<48, 48, 99, 48, 100, 101>>
COL_12ab9fc0 == <<49, 50, 97, 98, 57, 102, 99, 48>>
COL_7f == <<55, 102>>

\* "PX 12 \n": y coordinate missing
RAW_BAD_PX == <<80, 88, SP, 49, 50, SP, NL>>
\* "OFFSET 5\n": y coordinate missing
RAW_BAD_OFFSET == <<79, 70, 70, 83, 69, 84, SP, 53, NL>>
\* "X"
RAW_X == <<88>>
\* "HEL"
RAW_HEL == <<72, 69, 76>>

MaxCommand == CmdSet(<<1, 9, 1, 9>>, <<1, 0, 7, 9>>, COL_12ab9fc0)

\* "SIZE\nHELP\n"
RAW_SIZE_HELP == <<83, 73, 90, 69, NL, 72, 69, 76, 80, NL>>
\* "XPX 12 \nOFFSET 5\n": a stray byte, then a PX and an OFFSET with y missing
RAW_JUNK == RAW_X \o RAW_BAD_PX \o RAW_BAD_OFFSET

FragPool ==
    { CmdSet(<<1>>, <<1>>, COL_ff0000),
      CmdGet(<<1>>, <<1>>),
      CmdOffset(<<1, 0, 0>>, <<1, 0, 0>>),
      CmdRaw(RAW_SIZE_HELP),
      MaxCommand,
      CmdSet(<<0>>, <<0>>, COL_7f),
      CmdRaw(RAW_JUNK) }

Pool ==
    { CmdSet(<<1>>, <<1>>, COL_ff0000),
      CmdGet(<<1>>, <<1>>),
      CmdOffset(<<1, 0, 0>>, <<1, 0, 0>>),
      CmdSize,
      CmdHelp,
      MaxCommand,
      CmdSet(<<0>>, <<0>>, COL_7f),
      CmdRaw(RAW_X),
      CmdRaw(RAW_BAD_PX),
      CmdRaw(RAW_BAD_OFFSET),
      CmdGet(<<9, 9, 9, 9>>, <<0>>),
      CmdRaw(RAW_HEL) }

\* a tail that is a command cut before its newline
TruncatedTails ==
    { SubSeq(EncodeCmd(MaxCommand), 1, 21),
      SubSeq(EncodeCmd(CmdSet(<<1>>, <<1>>, COL_ff0000)), 1, 12),
      SubSeq(EncodeCmd(CmdSize), 1, 4) }

WholeTails == { <<>>, Zeros(PARSER_LOOKAHEAD), EncodeCmd(MaxCommand) }

MkInput(cmds, tail, truncated) == [cmds |-> cmds, tail |-> tail, truncated |-> truncated]

GenericInputs ==
    {MkInput(cs, t, TRUE) : cs \in SeqsUpTo(Pool, MaxCmds), t \in TruncatedTails}
    \cup {MkInput(cs, t, FALSE) : cs \in SeqsUpTo(Pool, MaxCmds) \ {<<>>}, t \in WholeTails}

\* set then get of one cell, after an optional OFFSET
SampleXs == {<<0>>, <<7>>, <<4, 2>>, <<9, 9, 9>>, <<1, 9, 1, 9>>, <<0, 7>>, <<2, 0, 0, 0>>}
SampleYs == {<<0>>, <<6, 5>>, <<1, 0, 7, 9>>, <<1, 0, 8, 0>>}
SampleColors == {COL_ff0000, COL_12ab9f, COL_00c0de}
SampleOffsets == {<<>>, <<CmdOffset(<<1, 0, 0>>, <<1, 0, 0>>)>>, <<CmdOffset(<<1, 9, 0, 0>>, <<5>>)>>}

RoundTripInputs ==
    {MkInput(pre \o <<CmdSet(xs, ys, c), CmdGet(xs, ys)>>, Zeros(PARSER_LOOKAHEAD), FALSE) :
        pre \in SampleOffsets, xs \in SampleXs, ys \in SampleYs, c \in SampleColors}

\* `PX x?y c\n` with byte b between the x digits and the y digits
CmdSep(xs, b, ys, col) ==
    CmdRaw(<<80, 88, SP>> \o Digs(xs) \o <<b>> \o Digs(ys) \o <<SP>> \o col \o <<NL>>)

\* b is 'x', '5' or a tab
SeparatorInputs ==
    {MkInput(<<CmdSep(xs, b, <<1>>, COL_ff0000)>>, Zeros(PARSER_LOOKAHEAD), FALSE) :
        xs \in {<<1>>, <<1, 2, 3, 4>>}, b \in {120, 53, 9}}

\* a gray pixel-set followed by a short line: "abc\n", "abcde\n", "a\n"
GrayFollowInputs ==
    {MkInput(<<CmdSet(<<1>>, <<1>>, COL_7f), CmdRaw(f)>>, Zeros(PARSER_LOOKAHEAD), FALSE) :
        f \in {<<97, 98, 99, NL>>, <<97, 98, 99, 100, 101, NL>>, <<97, NL>>}}

Inputs == GenericInputs \cup RoundTripInputs \cup SeparatorInputs \cup GrayFollowInputs

FragInputs ==
    {MkInput(cs, SubSeq(EncodeCmd(MaxCommand), 1, 21), TRUE) :
        cs \in SeqsUpTo(FragPool, MaxFragCmds) \ {<<>>}}

\* one well-formed pixel-set command with the lookahead margin behind it
PixelSets ==
    {CmdSet(xs, ys, c) : xs \in {<<1>>, <<1, 9, 1, 9>>}, ys \in {<<1>>, <<6, 5>>},
                         c \in SampleColors \cup {COL_12ab9fc0, COL_7f}}

ResyncInputs ==
    {MkInput(<<c>>, t, FALSE) : c \in PixelSets,
                                t \in {Zeros(PARSER_LOOKAHEAD), EncodeCmd(MaxCommand)}}

\* bytes tried around a coordinate: '/', '0', '1', '9', ':', ' ', '\n'
CoordBytes == {47, 48, 49, 57, 58, SP, NL}

CoordBuffers ==
    {[k \in 1..(CoordRun + 8) |-> IF k <= CoordRun THEN f[k] ELSE SP] :
        f \in [1..CoordRun -> CoordBytes]}

(***************************************************************************)
(* Specifications.                                                         *)
(***************************************************************************)
InitWith(S, builds) ==
    /\ input \in S
    /\ wire = EncodeInput(input)
    /\ alpha \in builds
    /\ received = 0 /\ consumed = 0 /\ calls = 0
    /\ phase = "whole"
    /\ pc = "idle"
    /\ buffer = <<>>
    /\ i = 0 /\ last_byte_parsed = 0 /\ loop_end = 0 /\ iters = 0
    /\ connection_x_offset = 0 /\ connection_y_offset = 0
    /\ fb = EmptyFb
    /\ stream = <<>> /\ sets = <<>> /\ applied = <<>>
    /\ result = NoResult
    /\ write_failed = FALSE
    /\ ref = NoRef
    /\ ret = NoRet

Init == InitWith(Inputs, {FALSE})

Step ==
    \/ PxSetRgb \/ PxSetRgba \/ PxSetGray \/ PxGet \/ PxNoMatch
    \/ OffsetOrSkip \/ Size \/ Help

Next == ParseWhole \/ Step \/ Return

Spec == Init /\ [][Next]_vars

\* the same stream sent whole, then again in two fragments
InitFrag == InitWith(FragInputs, {FALSE})

NextFrag ==
    \/ ParseWhole \/ Step \/ Return
    \/ Reconnect \/ ParseFirstFragment \/ Retain \/ ParseSecondFragment

SpecFrag == InitFrag /\ [][NextFrag]_vars

\* a pixel-set command sent alone, then again behind one stray byte
InitResync == InitWith(ResyncInputs, {FALSE})

NextResync ==
    \/ ParseWhole \/ PxSetRgb \/ PxSetRgba \/ PxSetGray \/ OffsetOrSkip \/ Return
    \/ ResendAfterGarbage

SpecResync == InitResync /\ [][NextResync]_vars

\* parse_coordinate applied directly to bounded inputs
CallParseCoordinate ==
    /\ pc = "coord"
    /\ ret' = [parse_coordinate(buffer, i) EXCEPT !.start = i]
    /\ i' = ret'.index
    /\ pc' = "coord_done"
    /\ UNCHANGED <<input, wire, received, consumed, phase, calls, buffer, last_byte_parsed,
                   loop_end, connection_x_offset, connection_y_offset, alpha, fb, stream,
                   sets, applied, result, write_failed, ref, iters>>

InitCoord ==
    /\ buffer \in CoordBuffers
    /\ i \in {0, 2}
    /\ pc = "coord"
    /\ input = MkInput(<<>>, <<>>, FALSE)
    /\ wire = <<>>
    /\ alpha = FALSE
    /\ received = 0 /\ consumed = 0 /\ calls = 0
    /\ phase = "whole"
    /\ last_byte_parsed = 0 /\ loop_end = 0 /\ iters = 0
    /\ connection_x_offset = 0 /\ connection_y_offset = 0
    /\ fb = EmptyFb
    /\ stream = <<>> /\ sets = <<>> /\ applied = <<>>
    /\ result = NoResult
    /\ write_failed = FALSE
    /\ ref = NoRef
    /\ ret = NoRet

NextCoord == CallParseCoordinate

SpecCoord == InitCoord /\ [][NextCoord]_vars

\* the colour codec applied to the colour of one pixel-set command, and that
\* command parsed: 2 digits in every mixture of the 22 hex characters, 6 and
\* 8 digits built from pairs in both cases
HexChars == (48..57) \cup (65..70) \cup (97..102)
\* "00", "ff", "1a", "A9", "cE"
HexPairs == {<<48, 48>>, <<102, 102>>, <<49, 97>>, <<65, 57>>, <<99, 69>>}

HexColors ==
    {<<a, b>> : a \in HexChars, b \in HexChars}
    \cup {p \o q \o r : p \in HexPairs, q \in HexPairs, r \in HexPairs}
    \cup {p \o q \o r \o t : p \in HexPairs, q \in HexPairs, r \in HexPairs, t \in HexPairs}

HexInputs ==
    {MkInput(<<CmdSet(<<1>>, <<1>>, c)>>, Zeros(PARSER_LOOKAHEAD), FALSE) : c \in HexColors}

\* where the colour of `PX x y c` begins
ColAt(c) == 3 + Len(c.xs) + 1 + Len(c.ys) + 1

\* the lanes the callers of simd_unhex keep: & 0xff (line 114), & 0x00ff_ffff
\* (line 67), all (line 87)
LaneMask(n) ==
    IF n = 2 THEN <<255, 0, 0, 0>>
    ELSE IF n = 6 THEN <<255, 255, 255, 0>>
    ELSE <<255, 255, 255, 255>>

\* simd_unhex applied to the 8 bytes at the colour, as parse applies it
CallSimdUnhex ==
    /\ pc = "returned" /\ ret.start = -1
    /\ LET c == input.cmds[1]
       IN  ret' = [value |-> WordAnd(simd_unhex(Window(wire, ColAt(c), 8)),
                                     LaneMask(Len(c.col))),
                   visited |-> TRUE, index |-> ColAt(c) + Len(c.col), start |-> ColAt(c)]
    /\ UNCHANGED <<input, wire, received, consumed, phase, calls, pc, buffer, i,
                   last_byte_parsed, loop_end, connection_x_offset, connection_y_offset,
                   alpha, fb, stream, sets, applied, result, write_failed, ref, iters>>

InitHex == InitWith(HexInputs, {FALSE})

NextHex ==
    \/ ParseWhole \/ PxSetRgb \/ PxSetRgba \/ PxSetGray \/ Return
    \/ CallSimdUnhex

SpecHex == InitHex /\ [][NextHex]_vars

\* the alpha build: a cell is set, then an RGBA pixel-set is made on it
\* "00", "80", "ff", "01", "Fe"
AlphaDigits == {<<48, 48>>, <<56, 48>>, <<102, 102>>, <<48, 49>>, <<70, 101>>}

AlphaInputs ==
    {MkInput(<<CmdSet(xs, <<1>>, c), CmdSet(xs, <<1>>, d \o a)>>,
             Zeros(PARSER_LOOKAHEAD), FALSE) :
        xs \in {<<1>>, <<1, 9, 2, 0>>}, c \in SampleColors, d \in SampleColors,
        a \in AlphaDigits}

InitAlpha == InitWith(AlphaInputs, {TRUE})

NextAlpha == ParseWhole \/ PxSetRgb \/ PxSetRgba \/ Return

SpecAlpha == InitAlpha /\ [][NextAlpha]_vars

(***************************************************************************)
(* Properties.                                                             *)
(***************************************************************************)
Cmds == input.cmds
\* index in wire of the first byte of the tail
TailStart == Len(EncodeAll(Cmds))

\* a coordinate written as 1-4 decimal digits without leading zeros
PlainCoord(ds) == Len(ds) \in 1..4 /\ (Len(ds) > 1 => ds[1] # 0)
LowerHex(col) == \A k \in DOMAIN col : col[k] \in (48..57) \cup (97..102)

\* C1: Fragmentation equivalence.  When a stream has been parsed in two calls
\* (any split point; the second buffer is what the transport retained after
\* the first call's returned offset, followed by the second chunk) and no
\* write failed, the canvas set operations, the replies and the connection
\* offset are those of the single parse call on the whole stream.
FragmentationEquivalence ==
    (phase = "fragmented" /\ calls = 2 /\ pc = "returned" /\ result.ok /\ AllOk(stream))
        => /\ sets = ref.sets
           /\ stream = ref.stream
           /\ connection_x_offset = ref.x
           /\ connection_y_offset = ref.y

\* both calls completed commands, the first call's bytes were dropped
FragmentationWitness ==
    /\ phase = "fragmented" /\ calls = 2 /\ pc = "returned" /\ result.ok /\ AllOk(stream)
    /\ consumed > 0 /\ result.val > 0
    /\ Len(sets) >= 1 /\ Len(stream) >= 1
    /\ applied[Len(applied)].at >= consumed

\* C2 as stated: a buffer shorter than the lookahead margin causes no canvas
\* mutation, no reply, no offset change and returns 0; and when the tail of
\* the buffer is a command cut before its newline the returned offset is
\* strictly smaller than the index of that command's first byte.
PartialNeverConsumedStrict ==
    (pc = "returned" /\ phase = "whole")
        => /\ Len(buffer) < PARSER_LOOKAHEAD
                => /\ result = Ok(0)
                   /\ sets = <<>> /\ stream = <<>>
                   /\ connection_x_offset = 0 /\ connection_y_offset = 0
           /\ (input.truncated /\ result.ok) => result.val < TailStart

\* "HELP" ends on the first byte of the tail
HelpEndsOnTail ==
    TailStart >= 3 /\ SubSeq(wire, TailStart - 2, TailStart + 1) = <<72, 69, 76, 80>>

\* C2 as amended: the short-buffer part unchanged; with a truncated tail the
\* returned offset never exceeds the index of the tail's first byte, and
\* equals it only when it is the nothing-parsed value 0 with the tail at
\* index 0, or when the tail's leading P completes a HELP begun before it.
PartialNeverConsumed ==
    (pc = "returned" /\ phase = "whole")
        => /\ Len(buffer) < PARSER_LOOKAHEAD
                => /\ result = Ok(0)
                   /\ sets = <<>> /\ stream = <<>>
                   /\ connection_x_offset = 0 /\ connection_y_offset = 0
           /\ (input.truncated /\ result.ok)
                => /\ result.val <= TailStart
                   /\ result.val = TailStart => (TailStart = 0 \/ HelpEndsOnTail)

\* a command right before the truncated tail completed, the tail was left
PartialNeverConsumedWitness ==
    /\ pc = "returned" /\ phase = "whole" /\ input.truncated /\ result.ok
    /\ TailStart > 0 /\ result.val = TailStart - 1
    /\ Len(applied) >= 1

\* C3: Set/get round trip.  When the cursor is on `PX x y\n`, the command
\* completed just before it is the `PX x y c\n` that precedes it in the
\* stream, x and y are written as 1-4 digits without leading zeros, c is 6
\* lowercase hex digits and the cell is in the canvas, the bytes written to
\* the sink are exactly `PX x y c\n`.
RoundTrip ==
    [][\A n \in 1..(Len(Cmds) - 1) :
         LET s == Cmds[n]
             g == Cmds[n + 1]
         IN  ( /\ s.k = "set" /\ g.k = "get" /\ g.xs = s.xs /\ g.ys = s.ys
               /\ PlainCoord(s.xs) /\ PlainCoord(s.ys)
               /\ Len(s.col) = 6 /\ LowerHex(s.col)
               /\ FbInCanvas(DigVal(s.xs) + connection_x_offset,
                             DigVal(s.ys) + connection_y_offset)
               /\ phase = "whole" /\ InLoop /\ consumed + i = StartOf(Cmds, n + 1)
               /\ applied # <<>>
               /\ applied[Len(applied)] = [at |-> StartOf(Cmds, n), kind |-> "px_rgb"] )
             => \E ok \in BOOLEAN :
                    stream' = Append(stream, [data |-> EncodeCmd(s), ok |-> ok])
      ]_vars

\* the reply to a get of a 4-digit cell was written and equals the set command
RoundTripWitness ==
    /\ pc = "returned" /\ phase = "whole" /\ Len(stream) = 1 /\ stream[1].ok
    /\ \E n \in 1..(Len(Cmds) - 1) :
          /\ Cmds[n].k = "set" /\ Cmds[n + 1].k = "get"
          /\ Len(Cmds[n].xs) = 4 /\ Len(Cmds[n].ys) = 4
          /\ stream[1].data = EncodeCmd(Cmds[n])

\* C4: Offset isolation.  When the stream begins with `OFFSET ox oy\n` and
\* continues with `PX x y c\n` then `PX x y\n` (all coordinates 1-4 digits,
\* the cell in the canvas) and parse has run over all three, the one canvas
\* set made is on cell (x+ox, y+oy) and the reply written is `PX x y c\n`.
OffsetIsolation ==
    ( /\ pc = "returned" /\ phase = "whole" /\ result.ok /\ AllOk(stream)
      /\ Len(Cmds) = 3
      /\ Cmds[1].k = "offset" /\ Cmds[2].k = "set" /\ Cmds[3].k = "get"
      /\ Cmds[3].xs = Cmds[2].xs /\ Cmds[3].ys = Cmds[2].ys
      /\ PlainCoord(Cmds[2].xs) /\ PlainCoord(Cmds[2].ys)
      /\ FbInCanvas(DigVal(Cmds[2].xs) + DigVal(Cmds[1].xs),
                    DigVal(Cmds[2].ys) + DigVal(Cmds[1].ys))
      /\ loop_end >= TailStart )
        => /\ Len(sets) = 1
           /\ sets[1].x = DigVal(Cmds[2].xs) + DigVal(Cmds[1].xs)
           /\ sets[1].y = DigVal(Cmds[2].ys) + DigVal(Cmds[1].ys)
           /\ Len(stream) = 1
           /\ stream[1].data = EncodeCmd(Cmds[2])

\* C5: Write failure aborts the call.  Once a write to the sink has failed
\* in a parse call, that call has returned the write error (so no byte is
\* processed after the failed write).
WriteFailureAborts ==
    write_failed => (pc = "returned" /\ result = Err)

\* C6: The only error outcome is a write failure.  A parse call that
\* returned an error is one in which a write failed; with no failed write
\* it returns a success value carrying an offset inside the buffer.
OnlyWriteErrors ==
    pc = "returned"
        => /\ ~result.ok => write_failed
           /\ ~write_failed => (result.ok /\ result.val \in 0..Len(buffer))

\* a buffer with a malformed PX command and an out-of-canvas get was parsed
\* to the end without an error
OnlyWriteErrorsWitness ==
    /\ pc = "returned" /\ result.ok /\ ~write_failed
    /\ Len(Cmds) = 2
    /\ Cmds[1] = CmdRaw(RAW_BAD_PX)
    /\ Cmds[2] = CmdGet(<<9, 9, 9, 9>>, <<0>>)
    /\ applied # <<>>

\* C7: Forward progress.  Every iteration of the dispatch loop (applied
\* command, failed attempt or no prefix match) strictly increases the
\* cursor, and a call never makes more iterations than its buffer has bytes,
\* so the loop ends.
ForwardProgress ==
    /\ [][(pc = "loop" /\ i < loop_end) => i' > i]_vars
    /\ [](iters <= i /\ i <= Len(buffer))

\* a call that went through a failed PX attempt has returned
ForwardProgressWitness ==
    /\ pc = "returned" /\ result.ok
    /\ Len(Cmds) >= 1 /\ Cmds[1] = CmdRaw(RAW_BAD_PX)
    /\ i >= loop_end /\ loop_end > 0 /\ iters >= 2

\* C8: Resynchronization.  A buffer holding one stray byte g followed by a
\* well-formed pixel-set command (and the lookahead margin) makes exactly
\* the canvas set operations of the buffer without g, returns no error, and
\* returns an offset one greater.
Resynchronization ==
    (phase = "resync" /\ pc = "returned")
        => /\ result.ok
           /\ sets = ref.sets
           /\ Len(sets) = 1
           /\ result.val = ref.val + 1

\* the stray byte was 'P' and the 22-byte command behind it was applied
ResynchronizationWitness ==
    /\ phase = "resync" /\ pc = "returned" /\ result.ok
    /\ wire[1] = 80
    /\ Cmds[1].col = COL_12ab9fc0
    /\ Len(sets) = 1 /\ result.val = Len(EncodeCmd(Cmds[1]))

\* "SIZE 1920 1080\n"
SizeLine == <<83, 73, 90, 69, SP, 49, 57, 50, 48, SP, 49, 48, 56, 48, NL>>

\* C9: Size query.  Every iteration that finds SIZE at the cursor makes
\* exactly one write, of `SIZE 1920 1080\n` (the canvas's width and height),
\* whatever commands ran before it.
SizeQuery ==
    [][(InLoop /\ IsSize)
          => \E ok \in BOOLEAN : stream' = Append(stream, [data |-> SizeLine, ok |-> ok])
      ]_vars

\* a SIZE reply was written after a pixel had been set
SizeQueryWitness ==
    /\ Len(sets) >= 1 /\ Len(stream) >= 1
    /\ applied[Len(applied)].kind = "size"
    /\ stream[Len(stream)] = [data |-> SizeLine, ok |-> TRUE]

\* the number of decimal digits at the start of a window, at most n
RECURSIVE DigitRun(_, _)
DigitRun(w, n) ==
    IF n = 0 \/ Len(w) = 0 \/ ~(Head(w) \in 48..57) THEN 0 ELSE 1 + DigitRun(Tail(w), n - 1)

\* the base-10 value of the digit characters w[1..n]
DecimalValue(w, n) == DigVal([k \in 1..n |-> w[k] - 48])

\* C10: Coordinate decoder.  parse_coordinate consumes the run of decimal
\* digits at the cursor, at most 4 of them (exactly the first 4 of a longer
\* run), returns their base-10 value and reports present; on a non-digit it
\* returns 0, reports absent and leaves the cursor unchanged.
CoordinateDecoder ==
    pc = "coord_done"
        => LET w == SubSeq(buffer, ret.start + 1, Len(buffer))
               n == DigitRun(w, 4)
           IN  /\ i = ret.start + n
               /\ ret.index = i
               /\ ret.visited = (n > 0)
               /\ ret.value = DecimalValue(w, n)

\* five digits at the cursor: the first four were consumed
CoordinateDecoderWitness ==
    /\ pc = "coord_done"
    /\ DigitRun(SubSeq(buffer, ret.start + 1, Len(buffer)), 8) >= 5
    /\ ret.value = 1901 /\ i = ret.start + 4

\* reference conversions of a string of hex digits
HexVal(ch) == IF ch \in 48..57 THEN ch - 48 ELSE IF ch \in 65..70 THEN ch - 55 ELSE ch - 87
PairVal(str, k) == 16 * HexVal(str[2 * k - 1]) + HexVal(str[2 * k])
\* the big-endian integer of the string (0xRRGGBB), as a little-endian word
BigEndianWord(str) ==
    LET n == Len(str) \div 2
    IN  [k \in 1..4 |-> IF k <= n THEN PairVal(str, n + 1 - k) ELSE 0]
\* the integer whose bytes, least significant first, are the string's pairs
PairOrderWord(str) ==
    LET n == Len(str) \div 2
    IN  [k \in 1..4 |-> IF k <= n THEN PairVal(str, k) ELSE 0]

\* C11 as stated: for a colour of 2, 6 or 8 hex digits in any mixture of
\* cases the value the codec decodes, and for 6 digits the value handed to
\* fb.set, is the big-endian integer of the digit string (0xRRGGBB).
HexDecodingBigEndian ==
    LET col == Cmds[1].col
    IN  /\ ret.start # -1 => ret.value = BigEndianWord(col)
        /\ (pc = "returned" /\ Len(col) = 6)
                => (Len(sets) = 1 /\ sets[1].rgba = BigEndianWord(col))

\* C11 as amended: the decoded value, and for 6 digits the value handed to
\* fb.set, is the integer whose bytes from the least significant upwards are
\* the successive digit pairs, each pair read most-significant nibble first
\* (0xBBGGRR for 6 digits, 0xAABBGGRR for 8, the plain value for 2).
HexDecoding ==
    LET col == Cmds[1].col
    IN  /\ ret.start # -1 => ret.value = PairOrderWord(col)
        /\ (pc = "returned" /\ Len(col) = 6)
                => (Len(sets) = 1 /\ sets[1].rgba = PairOrderWord(col))

\* "1aA9cE" was decoded and handed to fb.set as 0xcea91a
HexDecodingWitness ==
    /\ ret.start # -1 /\ pc = "returned"
    /\ Cmds[1].col = <<49, 97, 65, 57, 99, 69>>
    /\ ret.value = <<26, 169, 206, 0>>
    /\ Len(sets) = 1 /\ sets[1].rgba = <<26, 169, 206, 0>>

\* C12: Rollback on a malformed command.  Whenever the PX or OFFSET prefix
\* matches at cursor position p and the rest does not complete a command, the
\* next attempt starts at p + 1 (so a well-formed command beginning anywhere
\* after p is still reached).
RollbackOnMalformed ==
    [][(InLoop /\ (PxIsNone \/ (IsOffset /\ ~OffsetIsSet))) => i' = i + 1]_vars

\* C13: Lookahead memory safety.  In every iteration of the dispatch loop,
\* every index read (keyword window, coordinate windows, separator and
\* newline probes, hex window) lies inside the buffer.
LookaheadSafety ==
    InLoop => \A k \in Reads : k >= 0 /\ k < Len(buffer)

\* the last iteration the loop allows stands on a maximum-length RGBA command
\* and its farthest probe reads the last but one byte of the buffer
LookaheadSafetyWitness ==
    /\ InLoop /\ i = loop_end - 1 /\ PxIsRgba
    /\ PxJ + 8 = Len(buffer) - 2
    /\ (Len(buffer) - 2) \in Reads /\ ~((Len(buffer) - 1) \in Reads)

\* C14: Lookahead threshold.  With the cursor at i the loop makes a command
\* attempt exactly when i + 22 <= buffer length; in particular a buffer that
\* is exactly one maximum-length RGBA command (22 bytes) is decoded and
\* applied.
LookaheadThreshold ==
    /\ pc = "loop" => (InLoop <=> i + PARSER_LOOKAHEAD <= Len(buffer))
    /\ (pc = "returned" /\ phase = "whole" /\ wire = EncodeCmd(MaxCommand))
            => (result = Ok(PARSER_LOOKAHEAD - 1) /\ Len(sets) = 1)

\* the cursor stands on a fully matched OFFSET command: the 7-byte prefix
\* `OFFSET `, a coordinate pair and the trailing newline
WellFormedOffsetAtCursor ==
    /\ Window(buffer, i, 7) = <<79, 70, 70, 83, 69, 84, SP>>
    /\ OfC.present
    /\ ByteAt(buffer, OfC.index) = NL

\* after an applied PX set or get the marker is on a newline behind the
\* cursor's old position and the cursor is one past it
MarkerAfterPx ==
    [][(InLoop /\ (PxIsSet \/ PxIsGet))
          => /\ last_byte_parsed' > i
             /\ ByteAt(buffer, last_byte_parsed') = NL
             /\ i' = last_byte_parsed' + 1
      ]_vars

\* after a fully matched OFFSET the marker is on its newline, the cursor one
\* past it
MarkerAfterOffset ==
    [][(InLoop /\ WellFormedOffsetAtCursor)
          => /\ last_byte_parsed' = OfC.index
             /\ i' = OfC.index + 1
      ]_vars

\* an iteration that completes no command leaves the marker unchanged
MarkerAfterFailure ==
    [][(InLoop /\ ~(PxIsSet \/ PxIsGet \/ WellFormedOffsetAtCursor \/ IsSize \/ IsHelp))
          => last_byte_parsed' = last_byte_parsed
      ]_vars

\* parse returns the marker, which is 0 when no command completed
ReturnIsMarker ==
    [](pc = "returned" /\ result.ok
          => /\ result.val = last_byte_parsed
             /\ applied = <<>> => result.val = 0)

\* C15: Marker and cursor after an applied command.  After every applied PX
\* (set or get) or OFFSET command the cursor is one past the command's
\* newline and the marker is the index of that newline; a failed attempt
\* leaves the marker unchanged; parse returns the marker, 0 when no command
\* completed.
MarkerAndCursor ==
    MarkerAfterPx /\ MarkerAfterOffset /\ MarkerAfterFailure /\ ReturnIsMarker

\* C16: Offset frame condition.  The connection offset is (0,0) when the
\* first parse call begins, and a step changes either field only when it is
\* the iteration on a fully matched OFFSET command (prefix, coordinate pair,
\* newline): PX set, PX get, SIZE, HELP, an unmatched byte and a malformed
\* OFFSET attempt leave both fields as they were.
OffsetFrame ==
    /\ [](calls = 0 => (connection_x_offset = 0 /\ connection_y_offset = 0))
    /\ [][(connection_x_offset' # connection_x_offset
            \/ connection_y_offset' # connection_y_offset)
              => (InLoop /\ WellFormedOffsetAtCursor)
         ]_vars

\* a malformed OFFSET attempt and a pixel set have run, the offset is (0,0)
OffsetFrameWitness ==
    /\ pc = "returned" /\ result.ok
    /\ Cmds = <<CmdRaw(RAW_BAD_OFFSET), CmdSet(<<1>>, <<1>>, COL_ff0000)>>
    /\ Len(sets) = 1 /\ sets[1].x = 1 /\ sets[1].y = 1
    /\ connection_x_offset = 0 /\ connection_y_offset = 0

\* the byte that follows the x digits of a coordinate pair beginning at k
SepByte(k) == ByteAt(buffer, parse_coordinate(buffer, k).index)

\* C17: Coordinate-pair separator.  An iteration on a PX or OFFSET prefix
\* whose byte after the x digits is not a space is a non-match: it makes no
\* canvas mutation, writes no reply and leaves the offset unchanged.
CoordinateSeparator ==
    [][(InLoop /\ ((IsPx /\ SepByte(i + 3) # SP)
                   \/ (Window(buffer, i, 7) = <<79, 70, 70, 83, 69, 84, SP>>
                          /\ SepByte(i + 7) # SP)))
          => /\ fb' = fb /\ sets' = sets /\ stream' = stream
             /\ connection_x_offset' = connection_x_offset
             /\ connection_y_offset' = connection_y_offset
      ]_vars

\* the cursor stands on a well-formed `PX x y gg\n`
WellFormedGrayAtCursor ==
    /\ Window(buffer, i, 3) = <<80, 88, SP>>
    /\ PxC.present
    /\ SepByte(i + 3) = SP
    /\ ByteAt(buffer, PxC.index) = SP
    /\ ByteAt(buffer, PxC.index + 1) \in HexChars
    /\ ByteAt(buffer, PxC.index + 2) \in HexChars
    /\ ByteAt(buffer, PxC.index + 3) = NL

\* C18: Gray path selection.  An iteration on a well-formed `PX x y gg\n`
\* calls fb.set on cell (x + x_offset, y + y_offset) with all three channels
\* equal to the value of gg, and leaves the marker on that command's newline
\* and the cursor one past it, whatever bytes follow.
GrayPathSelection ==
    [][(InLoop /\ WellFormedGrayAtCursor)
          => LET g == 16 * HexVal(ByteAt(buffer, PxC.index + 1))
                      + HexVal(ByteAt(buffer, PxC.index + 2))
             IN  /\ sets' = Append(sets, [x |-> PxC.x + connection_x_offset,
                                          y |-> PxC.y + connection_y_offset,
                                          rgba |-> <<g, g, g, 0>>])
                 /\ last_byte_parsed' = PxC.index + 3
                 /\ i' = PxC.index + 4
      ]_vars

\* the cursor stands on a well-formed `PX x y rrggbbaa\n`
WellFormedRgbaAtCursor ==
    /\ Window(buffer, i, 3) = <<80, 88, SP>>
    /\ PxC.present
    /\ SepByte(i + 3) = SP
    /\ ByteAt(buffer, PxC.index) = SP
    /\ \A k \in 1..8 : ByteAt(buffer, PxC.index + k) \in HexChars
    /\ ByteAt(buffer, PxC.index + 9) = NL

\* C19: Alpha compositing (alpha build).  An iteration on a well-formed
\* `PX x y rrggbbaa\n` with aa > 0 and the cell in the canvas leaves in the
\* cell, for each of red, green and blue, (current * (255 - aa) + new * aa)
\* / 255 truncated, current being the same channel of the cell's colour
\* before; with aa = 0 or the cell outside the canvas the canvas is unchanged.
\* (Red is the channel the first digit pair of a colour sets: the lowest byte
\* of the stored word.)
AlphaCompositing ==
    [][(alpha /\ InLoop /\ WellFormedRgbaAtCursor)
          => LET new == PairOrderWord(SubSeq(buffer, PxC.index + 2, PxC.index + 9))
                 a == new[4]
                 x == PxC.x + connection_x_offset
                 y == PxC.y + connection_y_offset
                 cur == FbGetUnchecked(fb, x, y)
             IN  IF a = 0 \/ ~FbInCanvas(x, y)
                 THEN fb' = fb
                 ELSE \A k \in 1..3 :
                        FbGetUnchecked(fb', x, y)[k] = (cur[k] * (255 - a) + new[k] * a) \div 255
      ]_vars

\* C20: OFFSET is absolute and persistent.  An iteration on a fully matched
\* OFFSET command leaves the connection offset equal to that command's
\* coordinates as parsed, whatever the offset was before; and between the
\* return of one parse call and the start of the next on the same decoder
\* the offset does not change.
OffsetAbsolutePersistent ==
    /\ [][(InLoop /\ WellFormedOffsetAtCursor)
            => (connection_x_offset' = OfC.x /\ connection_y_offset' = OfC.y)
         ]_vars
    /\ [][(pc \in {"returned", "idle"} /\ phase' = phase)
            => /\ connection_x_offset' = connection_x_offset
               /\ connection_y_offset' = connection_y_offset
         ]_vars

====
